---- MODULE Spec2Model ----
(***************************************************************************)
(* Reliability layer of the proctoring client: the event queue             *)
(* (eventQueue.ts), the sequencing / throttling emitter (eventEmitter.ts)  *)
(* and the reconnecting WebSocket transport (proctorSocket, kept in        *)
(* core/mediaConfig.ts).                                                   *)
(*                                                                         *)
(* Every handler runs to completion (single-threaded event loop), so each  *)
(* exported function, socket callback and timer callback is one action.    *)
(* Handler bodies are operators over a record of the state they touch, so  *)
(* that the sequential composition of the code (emit = throttle; enqueue;  *)
(* send, timer = clear; connect, close task = onerror; onclose) is written *)
(* the way the code composes it.                                           *)
(***************************************************************************)
EXTENDS Integers, Sequences, FiniteSets, TLC

\* ------------------------------------------------------------------ bounds
\* sockets that may be created in one behaviour
MaxSockets == 2
\* emitProctorEvent calls made in one behaviour of Spec
MaxEvents == 1
\* sockets created and emitProctorEvent calls made in one behaviour of
\* SpecEmitter
MaxEmitterSockets == 1
MaxEmitterEvents == 3
\* granularity of the clock and last instant explored (milliseconds)
TickMs == 500
MaxNow == 2000
\* emits of the capacity run (SpecQueue): capacity + 100
MaxEnq == 600
\* polls of the device monitor in one behaviour of SpecMedia
MaxPolls == 3
\* emits and direct dequeueAll calls in one behaviour of SpecFifo
MaxFifoEvents == 4
MaxDrains == 3
\* violations recorded and setState calls awaiting a render in one behaviour
\* of SpecCooling and SpecDetector
MaxViolations == 2
MaxPending == 2
\* granularity of the clock of these specifications and its last instant
ClockStepMs == 10000
MaxClock == 71000
\* reconnects scheduled in a row without an open in between
MaxAttempts == 3
\* polls of the monitor in one behaviour of SpecMonitor
MaxMonitorPolls == 5

\* ------------------------------------------------------- program constants
MAX_QUEUE_SIZE == 500
CAMERA_STATUS_MS == 1000
MIC_STATUS_MS == 1000
TAB_BLUR_MS == 2000
FULLSCREEN_EXIT_MS == 1000
STREAM_LOST_MS == 5000
COOLING_PERIOD_DURATION == 60
RECONNECT_DELAY_MS == 2000
POLL_INTERVAL_MS == 1500
\* Date.now() at page load; any positive epoch time (it is never 0)
StartTime == 1000

\* THROTTLE_INTERVALS: the configured types and their minimum interval
THROTTLE_INTERVALS ==
  [t \in {"camera_status", "mic_status", "tab_blur", "fullscreen_exit", "stream_lost"} |->
     CASE t = "camera_status" -> CAMERA_STATUS_MS
       [] t = "mic_status" -> MIC_STATUS_MS
       [] t = "tab_blur" -> TAB_BLUR_MS
       [] t = "fullscreen_exit" -> FULLSCREEN_EXIT_MS
       [] t = "stream_lost" -> STREAM_LOST_MS]

\* event types the producers of the model emit: one throttled, one not
EventTypes == {"camera_status", "test_ended"}
\* the type emitted in Spec and SpecQueue, where the clock stands still
UnthrottledTypes == {"test_ended"}
\* the types the device monitor emits through the emitter
MonitorTypes == {"camera_status", "mic_status", "stream_lost"}

\* (sessionId, userId) pairs of the pages: the two exams the pages of the
\* specifications connect for
PageIdents == {<<"exam1", "cand1">>, <<"exam2", "cand2">>}
\* every identity connectSocket may be handed: those, and an exam whose id
\* holds a "#", which makes the socket URL one that "new WebSocket" rejects
Idents == PageIdents \cup {<<"exam#3", "cand3">>}
\* the identity of SpecEmitter and SpecQueue: one page
EmitterIdents == {<<"exam1", "cand1">>}

\* null of the socket reference, of the timer handle and of the identities
NoSocket == 0
NoTimer == 0
NoStartTime == 0
Null == "null"

Sockets == 1..MaxSockets

\* WebSocket.readyState; "NONE" marks a socket object not yet constructed
ReadyStates == {"NONE", "CONNECTING", "OPEN", "CLOSING", "CLOSED"}

VARIABLES
  sequence,            \* eventEmitter.ts: let sequence
  lastEmitTime,        \* eventEmitter.ts: lastEmitTime[type], 0 = no entry
  queue,               \* eventQueue.ts: let queue
  socket,              \* proctorSocket: let socket (NoSocket = null)
  reconnectTimer,      \* proctorSocket: let reconnectTimer (NoTimer = null)
  currentSessionId,    \* proctorSocket: let currentSessionId
  currentUserId,       \* proctorSocket: let currentUserId
  isConnected,         \* proctorSocket: let isConnected
  isManualDisconnect,  \* proctorSocket: let isManualDisconnect
  connectionState,     \* the state last handed to the onStateChange observer
  readyState,          \* readyState of every WebSocket object created
  sockIdent,           \* (sessionId, userId) closed over by a socket's handlers
  failed,              \* sockets whose connection the browser must fail
  attempts,            \* (ghost) reconnects scheduled since the last open or disconnect
  timers,              \* pending setTimeout callbacks: [h, sid, uid, delay]
  wire,                \* messages accepted by WebSocket.send, in order
  now,                 \* Date.now()
  history,             \* every event built by emitProctorEvent, in order
  sessionStart,        \* Len(history) at the last resetSequence
  evicted,             \* event_ids dropped by the queue at capacity
  calls,               \* every emitProctorEvent call: [type, at, accepted]
  manuallyClosed,      \* sockets closed by disconnectSocket
  cleared,             \* whether clearTimeout has cancelled a pending timer
  openLog,             \* what the latest socket.onopen did, in the order it did it
  globalStream,        \* streamManager: let globalStream (<<>> = null)
  currentRequirements, \* streamManager: let currentRequirements
  lastCameraStatus,    \* startMediaMonitor: let lastCameraStatus (<<>> = null)
  lastMicStatus,       \* startMediaMonitor: let lastMicStatus (<<>> = null)
  interval,            \* whether the monitor's setInterval is set
  emitted,             \* the emitEvent calls of the latest poll: [type, status]
  reported,            \* the status the running monitor last emitted per device
  available,           \* devices getUserMedia can hand out at this moment
  initPc,              \* initializeMediaStream: "idle" or the await it is at
  requirements,        \* initializeMediaStream: the parameter of the call
  errors,              \* initializeMediaStream: const errors
  combinedStream,      \* initializeMediaStream: const combinedStream
  returned,            \* what the last initializeMediaStream call resolved to
  polls,               \* polls made by the monitors (initial checks included)
  coolingPeriod,       \* useViolationManager: coolingPeriod as last rendered
  updates,             \* setCoolingPeriod calls React has not rendered yet
  coolingTimer,        \* coolingTimerRef: due time of the timeout it holds (NoTimer = none pending)
  countdownStart,      \* countdownTimerRef: startTime of the interval it holds
  alerts,              \* every alert addViolation built: [type, timestamp, by]
  isInCoolingPeriod,   \* the value the interval's checkForViolations closes over
  timeouts,            \* due times of the setTimeout timers of startCoolingPeriod still pending
  intervals,           \* start times of the setInterval timers of startCoolingPeriod still running
  loadPc,              \* loadFaceDetector: "loading", "loaded" or "failed"
  faceDetector,        \* whether faceDetectorRef holds a detector
  detectionReady,      \* useAIProcessing: detectionReady as last rendered
  pendingReady,        \* setDetectionReady calls React has not rendered yet
  loopReady,           \* the detectionReady the interval effect last ran with: the
                       \* detection interval exists exactly when it is TRUE
  drained              \* what each direct dequeueAll call returned, in order

vars == <<sequence, lastEmitTime, queue, socket, reconnectTimer,
          currentSessionId, currentUserId, isConnected, isManualDisconnect,
          connectionState, readyState, sockIdent, failed, attempts, timers, wire, now,
          history, sessionStart, evicted, calls, manuallyClosed, cleared, openLog,
          globalStream, currentRequirements, lastCameraStatus, lastMicStatus,
          interval, emitted, reported, available, initPc, requirements,
          errors, combinedStream, returned, polls,
          coolingPeriod, updates, coolingTimer, countdownStart, timeouts, intervals, loadPc,
          faceDetector, detectionReady, pendingReady, loopReady, alerts,
          isInCoolingPeriod, drained>>

\* the state of the media modules (streamManager, mediaMonitor)
mediaVars == <<globalStream, currentRequirements, lastCameraStatus,
               lastMicStatus, interval, emitted, reported, available,
               initPc, requirements, errors, combinedStream, returned, polls>>

\* the record of the dequeueAll calls of SpecFifo
fifoVars == <<drained>>

\* the state of the violation manager and of the detection loop
violationVars == <<coolingPeriod, updates, coolingTimer, countdownStart, timeouts, intervals, loadPc,
          faceDetector, detectionReady, pendingReady, loopReady, alerts,
                   isInCoolingPeriod>>

\* the state of the transport, the queue and the emitter
transportVars == <<sequence, lastEmitTime, queue, socket, reconnectTimer,
                   currentSessionId, currentUserId, isConnected,
                   isManualDisconnect, connectionState, readyState, sockIdent,
                   failed, attempts, timers, wire, now, history, sessionStart, evicted,
                   calls, manuallyClosed, cleared, openLog>>

\* the part of the state the handlers read and write, as one record
Cur ==
  [sequence |-> sequence, lastEmitTime |-> lastEmitTime, queue |-> queue,
   socket |-> socket, reconnectTimer |-> reconnectTimer,
   currentSessionId |-> currentSessionId, currentUserId |-> currentUserId,
   isConnected |-> isConnected, isManualDisconnect |-> isManualDisconnect,
   connectionState |-> connectionState, readyState |-> readyState,
   sockIdent |-> sockIdent, failed |-> failed, attempts |-> attempts, timers |-> timers, wire |-> wire,
   history |-> history, evicted |-> evicted, calls |-> calls,
   manuallyClosed |-> manuallyClosed, cleared |-> cleared,
   openLog |-> openLog]

CommitTransport(st) ==
  /\ sequence' = st.sequence
  /\ lastEmitTime' = st.lastEmitTime
  /\ queue' = st.queue
  /\ socket' = st.socket
  /\ reconnectTimer' = st.reconnectTimer
  /\ currentSessionId' = st.currentSessionId
  /\ currentUserId' = st.currentUserId
  /\ isConnected' = st.isConnected
  /\ isManualDisconnect' = st.isManualDisconnect
  /\ connectionState' = st.connectionState
  /\ readyState' = st.readyState
  /\ sockIdent' = st.sockIdent
  /\ failed' = st.failed
  /\ attempts' = st.attempts
  /\ timers' = st.timers
  /\ wire' = st.wire
  /\ history' = st.history
  /\ evicted' = st.evicted
  /\ calls' = st.calls
  /\ manuallyClosed' = st.manuallyClosed
  /\ cleared' = st.cleared
  /\ openLog' = st.openLog

Commit(st) ==
  /\ CommitTransport(st)
  /\ UNCHANGED <<mediaVars, violationVars, fifoVars>>

\* ------------------------------------------------------------- event queue

\* mutant: the capacity test lets the queue grow one past the capacity
enqueueEvent_OffByOne(st, event) ==
  LET full == Len(st.queue) > MAX_QUEUE_SIZE
      kept == IF full THEN Tail(st.queue) ELSE st.queue
      gone == IF full THEN st.evicted \cup {Head(st.queue).event_id} ELSE st.evicted
  IN [st EXCEPT !.queue = Append(kept, event), !.evicted = gone]

\* enqueueEvent that drops the two oldest entries of a full queue
enqueueEvent_EvictsTwo(st, event) ==
  LET full == Len(st.queue) >= MAX_QUEUE_SIZE
      kept == IF full THEN Tail(Tail(st.queue)) ELSE st.queue
      gone == IF full THEN st.evicted \cup {st.queue[1].event_id, st.queue[2].event_id}
                      ELSE st.evicted
  IN [st EXCEPT !.queue = Append(kept, event), !.evicted = gone]

enqueueEvent(st, event) ==
  LET full == Len(st.queue) >= MAX_QUEUE_SIZE
      kept == IF full THEN Tail(st.queue) ELSE st.queue
      gone == IF full THEN st.evicted \cup {Head(st.queue).event_id} ELSE st.evicted
  IN [st EXCEPT !.queue = Append(kept, event), !.evicted = gone]

\* dequeueAll that returns the snapshot and leaves the queue as it is
dequeueAll_KeepsQueue(st) == [events |-> st.queue, st |-> st]

\* returns the snapshot and the state with the queue emptied
dequeueAll(st) == [events |-> st.queue, st |-> [st EXCEPT !.queue = <<>>]]

\* clearQueue: the queue replaced by an empty one, nothing returned
clearQueue(st) == [st EXCEPT !.queue = <<>>]

hasQueuedEvents(st) == Len(st.queue) > 0

\* --------------------------------------------------- the browser WebSocket

\* WebSocket.send: throws InvalidStateError while CONNECTING, transmits when
\* OPEN, silently discards the data when CLOSING or CLOSED
wsSend(st, s, kind, events) ==
  IF st.readyState[s] = "OPEN"
    THEN [st EXCEPT !.wire = Append(@, [sock |-> s, kind |-> kind, events |-> events])]
    ELSE st

\* WebSocket.close: nothing when already CLOSING or CLOSED; fails the
\* connection when it is not yet established, else starts the closing handshake
wsClose(st, s) ==
  CASE st.readyState[s] = "CONNECTING" ->
         [st EXCEPT !.readyState[s] = "CLOSING", !.failed = @ \cup {s}]
    [] st.readyState[s] = "OPEN" ->
         [st EXCEPT !.readyState[s] = "CLOSING"]
    [] OTHER -> st

\* --------------------------------------------------------------- transport

\* mutant: a successful send takes the event out of the queue
sendEvent_RemovesSent(st, event) ==
  IF st.socket # NoSocket /\ st.readyState[st.socket] = "OPEN"
    THEN [wsSend(st, st.socket, "EVENT", <<event>>) EXCEPT
            !.queue = SelectSeq(@, LAMBDA e : e.event_id # event.event_id)]
    ELSE st

sendEvent(st, event) ==
  IF st.socket # NoSocket /\ st.readyState[st.socket] = "OPEN"
    THEN wsSend(st, st.socket, "EVENT", <<event>>)
    ELSE st

\* setTimeout hands out a handle no pending timer uses
NewHandle(st) ==
  CHOOSE h \in 1..(Cardinality(st.timers) + 1) : \A t \in st.timers : t.h # h

\* mutant: no test of the pending timer
scheduleReconnect_NoTimerGuard(st, sid, uid) ==
  IF st.isManualDisconnect
    THEN st
    ELSE LET h == NewHandle(st)
         IN [st EXCEPT !.connectionState = "reconnecting",
                       !.reconnectTimer = h,
                       !.attempts = @ + 1,
                       !.timers = @ \cup {[h |-> h, sid |-> sid, uid |-> uid,
                                           delay |-> RECONNECT_DELAY_MS]}]

scheduleReconnect(st, sid, uid) ==
  IF st.reconnectTimer # NoTimer \/ st.isManualDisconnect
    THEN st
    ELSE LET h == NewHandle(st)
         IN [st EXCEPT !.connectionState = "reconnecting",
                       !.reconnectTimer = h,
                       !.attempts = @ + 1,
                       !.timers = @ \cup {[h |-> h, sid |-> sid, uid |-> uid,
                                           delay |-> RECONNECT_DELAY_MS]}]

\* the socket the next "new WebSocket" yields
NextSocket(st) == Cardinality({s \in Sockets : st.readyState[s] # "NONE"}) + 1

\* "new WebSocket(url)" throws a SyntaxError for a URL with a fragment
UrlRejected(sid, uid) ==
  \E i \in 1..Len(sid) : SubSeq(sid, i, i) = "#"

connectSocket(st, sid, uid) ==
  IF st.socket # NoSocket /\ st.readyState[st.socket] # "CLOSED"
    THEN st
    ELSE LET st1 == [st EXCEPT !.currentSessionId = sid,
                                !.currentUserId = uid,
                                !.isManualDisconnect = FALSE]
             s == NextSocket(st)
         IN IF UrlRejected(sid, uid)
              THEN scheduleReconnect(st1, sid, uid)
              ELSE [st1 EXCEPT !.socket = s,
                               !.readyState[s] = "CONNECTING",
                               !.sockIdent[s] = <<sid, uid>>]

\* socket.onopen that flushes the queue before it notifies the observer
onopen_FlushesFirst(st, s) ==
  LET st1 == [st EXCEPT !.isConnected = TRUE, !.attempts = 0, !.openLog = <<>>]
      st2 == IF hasQueuedEvents(st1)
               THEN LET d == dequeueAll(st1)
                        d1 == [d.st EXCEPT !.openLog = Append(@, "dequeueAll")]
                    IN IF d1.socket = NoSocket
                         THEN d1
                         ELSE [wsSend(d1, d1.socket, "BATCH_EVENTS", d.events)
                                 EXCEPT !.openLog = Append(@, "send")]
               ELSE st1
  IN [st2 EXCEPT !.connectionState = "connected",
                 !.openLog = Append(@, "connected")]

\* socket.onopen of socket s; readyState[s] is already OPEN
onopen(st, s) ==
  LET st1 == [st EXCEPT !.isConnected = TRUE, !.connectionState = "connected",
                        !.attempts = 0, !.openLog = <<"connected">>]
  IN IF hasQueuedEvents(st1)
       THEN LET d == dequeueAll(st1)
                d1 == [d.st EXCEPT !.openLog = Append(@, "dequeueAll")]
            IN IF d1.socket = NoSocket
                 THEN d1
                 ELSE [wsSend(d1, d1.socket, "BATCH_EVENTS", d.events)
                         EXCEPT !.openLog = Append(@, "send")]
       ELSE st1

\* socket.onclose of socket s
onclose(st, s) ==
  LET st1 == [st EXCEPT !.isConnected = FALSE,
                        !.socket = NoSocket,
                        !.connectionState = "disconnected"]
  IN IF ~st1.isManualDisconnect
       THEN scheduleReconnect(st1, st.sockIdent[s][1], st.sockIdent[s][2])
       ELSE st1

\* socket.onerror of socket s
onerror(st, s) ==
  IF st.socket # NoSocket THEN wsClose(st, st.socket) ELSE st

\* mutant: the pending reconnect timer is not cancelled
disconnectSocket_KeepsTimer(st) ==
  LET st1 == [st EXCEPT !.isManualDisconnect = TRUE]
      st3 == IF st1.socket # NoSocket
               THEN [wsClose(st1, st1.socket) EXCEPT
                       !.manuallyClosed = @ \cup {st1.socket},
                       !.socket = NoSocket]
               ELSE st1
  IN [st3 EXCEPT !.isConnected = FALSE,
                 !.attempts = 0,
                 !.currentSessionId = Null,
                 !.currentUserId = Null,
                 !.connectionState = "disconnected"]

disconnectSocket(st) ==
  LET st1 == [st EXCEPT !.isManualDisconnect = TRUE]
      st2 == IF st1.reconnectTimer # NoTimer
               THEN [st1 EXCEPT !.timers = {t \in @ : t.h # st1.reconnectTimer},
                                !.cleared = TRUE,
                                !.reconnectTimer = NoTimer]
               ELSE st1
      st3 == IF st2.socket # NoSocket
               THEN [wsClose(st2, st2.socket) EXCEPT
                       !.manuallyClosed = @ \cup {st2.socket},
                       !.socket = NoSocket]
               ELSE st2
  IN [st3 EXCEPT !.isConnected = FALSE,
                 !.attempts = 0,
                 !.currentSessionId = Null,
                 !.currentUserId = Null,
                 !.connectionState = "disconnected"]

\* ----------------------------------------------------------------- emitter

\* returns whether the call is suppressed, and the state (last-emit time set
\* on an accepted call of a configured type)
\* shouldThrottle that measures the window from the last call, accepted or not
shouldThrottle_FromLastAttempt(st, type, t) ==
  LET throttleMs == IF type \in DOMAIN THROTTLE_INTERVALS THEN THROTTLE_INTERVALS[type] ELSE 0
      lastTime == st.lastEmitTime[type]
      st1 == [st EXCEPT !.lastEmitTime[type] = t]
  IN IF throttleMs = 0
       THEN [throttled |-> FALSE, st |-> st]
       ELSE IF lastTime = 0 \/ t - lastTime >= throttleMs
              THEN [throttled |-> FALSE, st |-> st1]
              ELSE [throttled |-> TRUE, st |-> st1]

shouldThrottle(st, type, t) ==
  LET throttleMs == IF type \in DOMAIN THROTTLE_INTERVALS THEN THROTTLE_INTERVALS[type] ELSE 0
      lastTime == st.lastEmitTime[type]
  IN IF throttleMs = 0
       THEN [throttled |-> FALSE, st |-> st]
       ELSE IF lastTime = 0 \/ t - lastTime >= throttleMs
              THEN [throttled |-> FALSE, st |-> [st EXCEPT !.lastEmitTime[type] = t]]
              ELSE [throttled |-> TRUE, st |-> st]

\* generateUUID: a value no earlier event carries
generateUUID(st) == Len(st.history) + 1

\* the record of one call in the log of calls
Call(type, t, accepted) == [type |-> type, at |-> t, accepted |-> accepted]

\* mutant: the incremented counter is not stored
emitProctorEvent_StaleSequence(st, sid, uid, type, payload, t) ==
  LET th == shouldThrottle(st, type, t)
  IN IF th.throttled
       THEN [th.st EXCEPT !.calls = Append(@, Call(type, t, FALSE))]
       ELSE LET event == [event_id |-> generateUUID(th.st), session_id |-> sid,
                          user_id |-> uid, type |-> type, payload |-> payload,
                          timestamp |-> t,
                          sequence |-> th.st.sequence + 1]
                st1 == [th.st EXCEPT !.history = Append(@, event),
                                     !.calls = Append(@, Call(type, t, TRUE))]
            IN sendEvent(enqueueEvent(st1, event), event)

\* mutant: the sequence number is taken before the throttle is consulted
emitProctorEvent_CountsSuppressed(st, sid, uid, type, payload, t) ==
  LET th == shouldThrottle(st, type, t)
  IN IF th.throttled
       THEN [th.st EXCEPT !.sequence = @ + 1,
                          !.calls = Append(@, Call(type, t, FALSE))]
       ELSE LET event == [event_id |-> generateUUID(th.st), session_id |-> sid,
                          user_id |-> uid, type |-> type, payload |-> payload,
                          timestamp |-> t,
                          sequence |-> th.st.sequence + 1]
                st1 == [th.st EXCEPT !.sequence = @ + 1,
                                     !.history = Append(@, event),
                                     !.calls = Append(@, Call(type, t, TRUE))]
            IN sendEvent(enqueueEvent(st1, event), event)

emitProctorEvent(st, sid, uid, type, payload, t) ==
  LET th == shouldThrottle(st, type, t)
  IN IF th.throttled
       THEN [th.st EXCEPT !.calls = Append(@, Call(type, t, FALSE))]
       ELSE LET event == [event_id |-> generateUUID(th.st), session_id |-> sid,
                          user_id |-> uid, type |-> type, payload |-> payload,
                          timestamp |-> t,
                          sequence |-> th.st.sequence + 1]
                st1 == [th.st EXCEPT !.sequence = @ + 1,
                                     !.history = Append(@, event),
                                     !.calls = Append(@, Call(type, t, TRUE))]
            IN sendEvent(enqueueEvent(st1, event), event)

resetSequence(st) == [st EXCEPT !.sequence = 0]

\* Exam.tsx handleProctorEvent while the test is active: the emitEvent the
\* monitor is started with
handleProctorEvent(st, type, payload, t) ==
  emitProctorEvent(st, "exam1", "cand1", type, payload, t)

\* the emitEvent calls of one poll, in order, passed to handleProctorEvent
RECURSIVE deliver(_, _, _)
deliver(st, events, t) ==
  IF events = <<>> THEN st
  ELSE deliver(handleProctorEvent(st, Head(events).type, Head(events).status, t),
               Tail(events), t)

\* ----------------------------------------------------------- media modules
\* streamManager and mediaMonitor (src/unnamed/part_004)

Devices == {"camera", "microphone"}

\* mediaConfig.ts: DEFAULT_REQUIREMENTS, and every MediaRequirements value
DEFAULT_REQUIREMENTS == [camera |-> TRUE, microphone |-> TRUE]
Requirements == [camera : BOOLEAN, microphone : BOOLEAN]

\* const errors = {}: an empty sequence is an absent entry
NoErrors == [camera |-> <<>>, microphone |-> <<>>]
\* new MediaStream()
EmptyStream == [video |-> <<>>, audio |-> <<>>]
\* the track a successful getUserMedia hands out
LiveTrack == [readyState |-> "live", enabled |-> TRUE]
\* message of the DOMException a failed getUserMedia rejects with
GetUserMediaMessage == "Requested device not found"

\* the state of the media modules as one record
MCur ==
  [globalStream |-> globalStream, currentRequirements |-> currentRequirements,
   lastCameraStatus |-> lastCameraStatus, lastMicStatus |-> lastMicStatus,
   interval |-> interval, emitted |-> emitted, reported |-> reported,
   available |-> available,
   initPc |-> initPc, requirements |-> requirements, errors |-> errors,
   combinedStream |-> combinedStream, returned |-> returned]

CommitMedia(m) ==
  /\ globalStream' = m.globalStream
  /\ currentRequirements' = m.currentRequirements
  /\ lastCameraStatus' = m.lastCameraStatus
  /\ lastMicStatus' = m.lastMicStatus
  /\ interval' = m.interval
  /\ emitted' = m.emitted
  /\ reported' = m.reported
  /\ available' = m.available
  /\ initPc' = m.initPc
  /\ requirements' = m.requirements
  /\ errors' = m.errors
  /\ combinedStream' = m.combinedStream
  /\ returned' = m.returned

MCommit(m) ==
  /\ CommitMedia(m)
  /\ UNCHANGED <<transportVars, violationVars, fifoVars>>

\* tracks.some((track) => track.readyState === "live")
someLive(tracks) == \E i \in DOMAIN tracks : tracks[i].readyState = "live"

\* stream.getTracks()
getTracks(stream) == stream.video \o stream.audio

\* the emitEvent callback handed to startMediaMonitor
emitEvent(m, type, status) ==
  [m EXCEPT !.emitted = Append(@, [type |-> type, status |-> status]),
            !.reported = IF type = "camera_status" THEN [@ EXCEPT !.camera = <<status>>]
                         ELSE IF type = "mic_status" THEN [@ EXCEPT !.microphone = <<status>>]
                         ELSE @]

\* nothing reported yet
Unobserved == [camera |-> <<>>, microphone |-> <<>>]

\* checkMediaStatus: const cameraOn, const micOn
cameraOn(stream) ==
  /\ Len(stream.video) > 0
  /\ stream.video[1].readyState = "live"
  /\ stream.video[1].enabled

micOn(stream) ==
  /\ Len(stream.audio) > 0
  /\ stream.audio[1].readyState = "live"
  /\ stream.audio[1].enabled

\* status: cameraOn ? "on" : "off"
StatusOf(on) == IF on THEN "on" ELSE "off"

\* checkMediaStatus that reports the camera without remembering what it reported
checkMediaStatus_LevelTriggered(m) ==
  IF Len(m.globalStream) = 0
  THEN IF m.currentRequirements.camera \/ m.currentRequirements.microphone
       THEN emitEvent(m, "stream_lost", "none")
       ELSE m
  ELSE LET stream == m.globalStream[1]
           cam == cameraOn(stream)
           mic == micOn(stream)
           m1 == IF m.currentRequirements.camera /\ <<cam>> # m.lastCameraStatus
                 THEN emitEvent(m, "camera_status", StatusOf(cam))
                 ELSE m
       IN IF m1.currentRequirements.microphone /\ <<mic>> # m1.lastMicStatus
          THEN [emitEvent(m1, "mic_status", StatusOf(mic)) EXCEPT !.lastMicStatus = <<mic>>]
          ELSE m1

\* checkMediaStatus that reports the camera whether it is required or not
checkMediaStatus_ReportsOptional(m) ==
  IF Len(m.globalStream) = 0
  THEN IF m.currentRequirements.camera \/ m.currentRequirements.microphone
       THEN emitEvent(m, "stream_lost", "none")
       ELSE m
  ELSE LET stream == m.globalStream[1]
           cam == cameraOn(stream)
           mic == micOn(stream)
           m1 == IF <<cam>> # m.lastCameraStatus
                 THEN [emitEvent(m, "camera_status", StatusOf(cam))
                         EXCEPT !.lastCameraStatus = <<cam>>]
                 ELSE m
       IN IF m1.currentRequirements.microphone /\ <<mic>> # m1.lastMicStatus
          THEN [emitEvent(m1, "mic_status", StatusOf(mic)) EXCEPT !.lastMicStatus = <<mic>>]
          ELSE m1

\* checkMediaStatus, the body of one poll
\* checkMediaStatus that reports a missing stream whatever the requirements
checkMediaStatus_LostWithoutRequirement(m) ==
  IF Len(m.globalStream) = 0
  THEN emitEvent(m, "stream_lost", "none")
  ELSE LET stream == m.globalStream[1]
           cam == cameraOn(stream)
           mic == micOn(stream)
           m1 == IF m.currentRequirements.camera /\ <<cam>> # m.lastCameraStatus
                 THEN [emitEvent(m, "camera_status", StatusOf(cam))
                         EXCEPT !.lastCameraStatus = <<cam>>]
                 ELSE m
       IN IF m1.currentRequirements.microphone /\ <<mic>> # m1.lastMicStatus
          THEN [emitEvent(m1, "mic_status", StatusOf(mic)) EXCEPT !.lastMicStatus = <<mic>>]
          ELSE m1

checkMediaStatus(m) ==
  IF Len(m.globalStream) = 0
  THEN IF m.currentRequirements.camera \/ m.currentRequirements.microphone
       THEN emitEvent(m, "stream_lost", "none")
       ELSE m
  ELSE LET stream == m.globalStream[1]
           cam == cameraOn(stream)
           mic == micOn(stream)
           m1 == IF m.currentRequirements.camera /\ <<cam>> # m.lastCameraStatus
                 THEN [emitEvent(m, "camera_status", StatusOf(cam))
                         EXCEPT !.lastCameraStatus = <<cam>>]
                 ELSE m
       IN IF m1.currentRequirements.microphone /\ <<mic>> # m1.lastMicStatus
          THEN [emitEvent(m1, "mic_status", StatusOf(mic)) EXCEPT !.lastMicStatus = <<mic>>]
          ELSE m1

\* startMediaMonitor: a new closure, setInterval, the initial check
startMediaMonitor(m) ==
  checkMediaStatus([m EXCEPT !.lastCameraStatus = <<>>, !.lastMicStatus = <<>>,
                             !.interval = TRUE, !.reported = Unobserved,
                             !.emitted = <<>>])

\* the interval callback: checkMediaStatus
intervalCallback(m) == checkMediaStatus([m EXCEPT !.emitted = <<>>])

\* stopMonitoring that also releases the capture stream
stopMonitoring_ReleasesStream(m) == [m EXCEPT !.interval = FALSE, !.globalStream = <<>>]

\* the cleanup startMediaMonitor returns: clearInterval
stopMonitoring(m) == [m EXCEPT !.interval = FALSE]

\* initializeMediaStream resolves: the promise's value is recorded (the
\* stream as null or as the object globalStream refers to) with the argument
\* of the call and the devices available at that moment; the locals of the
\* call are gone
return(m, stream, errs) ==
  [m EXCEPT !.initPc = "idle",
            !.returned = <<[stream |-> IF Len(stream) = 0 THEN "null" ELSE "globalStream",
                            errors |-> errs,
                            requirements |-> m.requirements,
                            available |-> m.available]>>,
            !.errors = NoErrors,
            !.combinedStream = EmptyStream]

\* initializeMediaStream from "Check if required devices are available" on
finishInitialize(m) ==
  LET hasCamera == Len(m.combinedStream.video) > 0
      hasMicrophone == Len(m.combinedStream.audio) > 0
  IN IF m.requirements.camera /\ ~hasCamera
     THEN return(m, <<>>, m.errors)
     ELSE IF m.requirements.microphone /\ ~hasMicrophone
     THEN return(m, <<>>, m.errors)
     ELSE IF Len(getTracks(m.combinedStream)) = 0
     THEN return(m, <<>>, [camera |-> <<"No devices available">>,
                           microphone |-> <<"No devices available">>])
     ELSE return([m EXCEPT !.globalStream = <<m.combinedStream>>],
                 <<m.combinedStream>>, m.errors)

\* initializeMediaStream at "Request microphone if needed"
requestMicrophone(m) ==
  IF m.requirements.microphone
  THEN [m EXCEPT !.initPc = "microphone"]
  ELSE finishInitialize(m)

\* initializeMediaStream at "Request camera if needed"
requestCamera(m) ==
  IF m.requirements.camera
  THEN [m EXCEPT !.initPc = "camera"]
  ELSE requestMicrophone(m)

\* initializeMediaStream up to its first await
initializeMediaStream(m, req) ==
  LET m0 == [m EXCEPT !.currentRequirements = req, !.requirements = req,
                      !.errors = NoErrors, !.combinedStream = EmptyStream]
  IN IF Len(m0.globalStream) > 0
     THEN IF someLive(m0.globalStream[1].video) \/ someLive(m0.globalStream[1].audio)
          THEN return(m0, m0.globalStream, NoErrors)
          ELSE requestCamera([m0 EXCEPT !.globalStream = <<>>])
     ELSE requestCamera(m0)

\* the getUserMedia({video: true}) of initializeMediaStream settles
videoSettled(m, ok) ==
  requestMicrophone(
    IF ok THEN [m EXCEPT !.combinedStream.video = Append(@, LiveTrack)]
          ELSE [m EXCEPT !.errors.camera = <<GetUserMediaMessage>>])

\* the getUserMedia({audio: true}) of initializeMediaStream settles
audioSettled(m, ok) ==
  finishInitialize(
    IF ok THEN [m EXCEPT !.combinedStream.audio = Append(@, LiveTrack)]
          ELSE [m EXCEPT !.errors.microphone = <<GetUserMediaMessage>>])

\* cleanupMediaStream
cleanupMediaStream(m) ==
  IF Len(m.globalStream) > 0 THEN [m EXCEPT !.globalStream = <<>>] ELSE m

\* -------------------------------------------------------- violation manager
\* useViolationManager.ts and the detection loop of useAIProcessing
\* (src/unnamed/part_006).  React state is a committed value plus the queue of
\* setState calls not yet rendered; a callback handed to setInterval sees the
\* values of the render that created it until the effect that owns the
\* interval has run again.

\* coolingPeriod of useState: the initial value, also set when the period ends
NotCooling == [active |-> FALSE, remainingSeconds |-> 0, startTime |-> NoStartTime]

\* the state of the hooks as one record
VCur ==
  [coolingPeriod |-> coolingPeriod, updates |-> updates,
   coolingTimer |-> coolingTimer, countdownStart |-> countdownStart,
   timeouts |-> timeouts, intervals |-> intervals,
   loadPc |-> loadPc, faceDetector |-> faceDetector,
   detectionReady |-> detectionReady, pendingReady |-> pendingReady,
   loopReady |-> loopReady,
   alerts |-> alerts, isInCoolingPeriod |-> isInCoolingPeriod]

VCommit(v) ==
  /\ coolingPeriod' = v.coolingPeriod
  /\ updates' = v.updates
  /\ coolingTimer' = v.coolingTimer
  /\ countdownStart' = v.countdownStart
  /\ timeouts' = v.timeouts
  /\ intervals' = v.intervals
  /\ loadPc' = v.loadPc
  /\ faceDetector' = v.faceDetector
  /\ detectionReady' = v.detectionReady
  /\ pendingReady' = v.pendingReady
  /\ loopReady' = v.loopReady
  /\ alerts' = v.alerts
  /\ isInCoolingPeriod' = v.isInCoolingPeriod

\* setCoolingPeriod(value) and setCoolingPeriod((prev) => ({...prev, remainingSeconds}))
setCoolingPeriod(v, value) ==
  [v EXCEPT !.updates = Append(@, [kind |-> "value", value |-> value])]

setRemainingSeconds(v, remaining) ==
  [v EXCEPT !.updates = Append(@, [kind |-> "remaining",
                                   value |-> [NotCooling EXCEPT !.remainingSeconds = remaining]])]

\* one queued update applied to a state
applyUpdate(prev, u) ==
  IF u.kind = "value" THEN u.value
  ELSE [prev EXCEPT !.remainingSeconds = u.value.remainingSeconds]

\* the queued updates applied in order
RECURSIVE applyUpdates(_, _)
applyUpdates(prev, us) ==
  IF us = <<>> THEN prev ELSE applyUpdates(applyUpdate(prev, Head(us)), Tail(us))

\* clearTimeout(coolingTimerRef.current) and clearInterval(countdownTimerRef.current)
\* at the head of startCoolingPeriod
clearTimers(v) ==
  [v EXCEPT !.timeouts = IF v.coolingTimer # NoTimer THEN @ \ {v.coolingTimer} ELSE @,
            !.intervals = IF v.countdownStart # NoStartTime THEN @ \ {v.countdownStart} ELSE @]

\* the setInterval and the setTimeout of startCoolingPeriod called at t
setTimers(v, t) ==
  [v EXCEPT !.coolingTimer = t + COOLING_PERIOD_DURATION * 1000,
            !.timeouts = @ \cup {t + COOLING_PERIOD_DURATION * 1000},
            !.countdownStart = t,
            !.intervals = @ \cup {t}]

\* startCoolingPeriod that adds the new period to what remains of the old one
startCoolingPeriod_Additive(v, t) ==
  setCoolingPeriod(
    setTimers(clearTimers(v), t),
    [active |-> TRUE,
     remainingSeconds |-> applyUpdates(v.coolingPeriod, v.updates).remainingSeconds
                            + COOLING_PERIOD_DURATION,
     startTime |-> t])

\* startCoolingPeriod that leaves the timers of the previous period running
startCoolingPeriod_KeepsTimers(v, t) ==
  setCoolingPeriod(
    setTimers(v, t),
    [active |-> TRUE, remainingSeconds |-> COOLING_PERIOD_DURATION, startTime |-> t])

\* startCoolingPeriod: both timers cleared and set again, the status set
startCoolingPeriod(v, t) ==
  setCoolingPeriod(
    setTimers(clearTimers(v), t),
    [active |-> TRUE, remainingSeconds |-> COOLING_PERIOD_DURATION, startTime |-> t])

\* addViolation; by is who called it
addViolation(v, type, t, by) ==
  startCoolingPeriod(
    [v EXCEPT !.alerts = Append(@, [type |-> type, timestamp |-> t, by |-> by])], t)

\* Math.max(0, a)
Max0(a) == IF a < 0 THEN 0 ELSE a

\* a countdown callback without the Math.max(0, ...)
countdownCallback_Unclamped(v, startTime, t) ==
  LET elapsed == (t - startTime) \div 1000
      remaining == COOLING_PERIOD_DURATION - elapsed
      v1 == setRemainingSeconds(v, remaining)
  IN IF remaining = 0 /\ v1.countdownStart # NoStartTime
       THEN [v1 EXCEPT !.intervals = @ \ {v1.countdownStart},
                       !.countdownStart = NoStartTime]
       ELSE v1

\* the setInterval callback of startCoolingPeriod
countdownCallback(v, startTime, t) ==
  LET elapsed == (t - startTime) \div 1000
      remaining == Max0(COOLING_PERIOD_DURATION - elapsed)
      v1 == setRemainingSeconds(v, remaining)
  IN IF remaining = 0 /\ v1.countdownStart # NoStartTime
       THEN [v1 EXCEPT !.intervals = @ \ {v1.countdownStart},
                       !.countdownStart = NoStartTime]
       ELSE v1

\* a setTimeout callback that ends the countdown but leaves the period active
coolingTimerCallback_KeepsActive(v, due) ==
  setRemainingSeconds(
    [v EXCEPT !.timeouts = @ \ {due},
              !.coolingTimer = IF @ = due THEN NoTimer ELSE @],
    0)

\* the setTimeout callback of startCoolingPeriod
coolingTimerCallback(v, due) ==
  setCoolingPeriod(
    [v EXCEPT !.timeouts = @ \ {due},
              !.coolingTimer = IF @ = due THEN NoTimer ELSE @],
    NotCooling)

\* a render commits the queued updates
render(v) ==
  [v EXCEPT !.coolingPeriod = applyUpdates(v.coolingPeriod, v.updates),
            !.updates = <<>>,
            !.detectionReady = IF v.pendingReady = <<>> THEN @
                               ELSE v.pendingReady[Len(v.pendingReady)],
            !.pendingReady = <<>>]

\* the interval effect of useAIProcessing runs again (config.enabled true):
\* the old interval is cleared; with detectionReady a new one is set that
\* calls the checkForViolations of the latest render
resubscribe(v) ==
  [v EXCEPT !.isInCoolingPeriod = v.coolingPeriod.active,
            !.loopReady = v.detectionReady]

\* loadFaceDetector resolves: the detector stored, setDetectionReady(true)
detectorLoaded(v) ==
  [v EXCEPT !.loadPc = "loaded", !.faceDetector = TRUE,
            !.pendingReady = Append(@, TRUE)]

\* a failed load treated as a successful one
detectorFailed_AsLoaded(v) ==
  [v EXCEPT !.loadPc = "failed", !.faceDetector = TRUE,
            !.pendingReady = Append(@, TRUE)]

\* the catch of loadFaceDetector: setDetectionReady(false)
detectorFailed(v) ==
  [v EXCEPT !.loadPc = "failed", !.pendingReady = Append(@, FALSE)]

\* detectFaces: nothing detected without a detector or when the video is not
\* ready or detectForVideo throws (ok false); else faceCount faces
detectFaces(v, ok, faceCount) ==
  IF v.faceDetector /\ ok
    THEN [faceCount |-> faceCount, detected |-> TRUE]
    ELSE [faceCount |-> 0, detected |-> FALSE]

\* checkForViolations of a render whose isInCoolingPeriod is
\* v.isInCoolingPeriod and whose detectionReady is v.loopReady
checkForViolations(v, ok, faceCount, t) ==
  LET result == detectFaces(v, ok, faceCount)
  IN IF v.isInCoolingPeriod THEN v
     ELSE IF ~v.loopReady THEN v
     ELSE IF ~result.detected THEN v
     ELSE IF result.faceCount = 0
       THEN addViolation(v, "no_face", t, "checkForViolations")
     ELSE IF result.faceCount > 1
       THEN addViolation(v, "multiple_faces", t, "checkForViolations")
     ELSE v

\* clearAlert(alertId): the alerts filtered by id; ids are unique, so the
\* alert at position i, the one carrying the id, is the one removed
clearAlert(v, i) ==
  [v EXCEPT !.alerts = SubSeq(@, 1, i - 1) \o SubSeq(@, i + 1, Len(@))]

\* clearAllAlerts: setAlerts([])
clearAllAlerts(v) == [v EXCEPT !.alerts = <<>>]

\* ------------------------------------------------------------------ actions

Init ==
  /\ sequence = 0
  /\ lastEmitTime = [t \in EventTypes \cup MonitorTypes |-> 0]
  /\ queue = <<>>
  /\ socket = NoSocket
  /\ reconnectTimer = NoTimer
  /\ currentSessionId = Null
  /\ currentUserId = Null
  /\ isConnected = FALSE
  /\ isManualDisconnect = FALSE
  /\ connectionState = "disconnected"
  /\ readyState = [s \in Sockets |-> "NONE"]
  /\ sockIdent = [s \in Sockets |-> <<Null, Null>>]
  /\ failed = {}
  /\ attempts = 0
  /\ timers = {}
  /\ wire = <<>>
  /\ now = StartTime
  /\ history = <<>>
  /\ sessionStart = 0
  /\ evicted = {}
  /\ calls = <<>>
  /\ manuallyClosed = {}
  /\ cleared = FALSE
  /\ openLog = <<>>
  /\ globalStream = <<>>
  /\ currentRequirements = DEFAULT_REQUIREMENTS
  /\ lastCameraStatus = <<>>
  /\ lastMicStatus = <<>>
  /\ interval = FALSE
  /\ emitted = <<>>
  /\ reported = Unobserved
  /\ available = Devices
  /\ initPc = "idle"
  /\ requirements = DEFAULT_REQUIREMENTS
  /\ errors = NoErrors
  /\ combinedStream = EmptyStream
  /\ returned = <<>>
  /\ polls = 0
  /\ coolingPeriod = NotCooling
  /\ updates = <<>>
  /\ coolingTimer = NoTimer
  /\ countdownStart = NoStartTime
  /\ timeouts = {}
  /\ intervals = {}
  /\ loadPc = "loading"
  /\ faceDetector = FALSE
  /\ detectionReady = FALSE
  /\ pendingReady = <<>>
  /\ loopReady = FALSE
  /\ alerts = <<>>
  /\ isInCoolingPeriod = FALSE
  /\ drained = <<>>

\* a new WebSocket can still be constructed within the bound maxS
CanCreate(st, maxS) == NextSocket(st) <= maxS

\* whether this connectSocket call reaches "new WebSocket"
Creates(st) == IF st.socket = NoSocket THEN TRUE ELSE st.readyState[st.socket] = "CLOSED"

\* a page calls emitProctorEvent with its identity (one of I) and a type of T
Emit(I, T, maxE) ==
  /\ Len(calls) < maxE
  /\ \E id \in I, type \in T :
       Commit(emitProctorEvent(Cur, id[1], id[2], type, "none", now))
  /\ UNCHANGED <<now, sessionStart>>

\* a page starts a session: resetSequence (Exam.tsx effect)
ResetSequence ==
  /\ Commit(resetSequence(Cur))
  /\ sessionStart' = Len(history)
  /\ UNCHANGED now

\* the events accepted since the last resetSequence, in emission order
SessionEvents == SubSeq(history, sessionStart + 1, Len(history))

\* a page calls connectSocket
ConnectSocket(I, maxS) ==
  /\ \E id \in I :
       /\ (Creates(Cur) /\ ~UrlRejected(id[1], id[2])) => CanCreate(Cur, maxS)
       /\ (Creates(Cur) /\ UrlRejected(id[1], id[2])) => attempts < MaxAttempts
       /\ Commit(connectSocket(Cur, id[1], id[2]))
  /\ UNCHANGED <<now, sessionStart>>

\* a page calls disconnectSocket
DisconnectSocket ==
  /\ Commit(disconnectSocket(Cur))
  /\ UNCHANGED <<now, sessionStart>>

\* the connection of socket s is established: readyState OPEN, open event
SocketOpen(s) ==
  /\ readyState[s] = "CONNECTING"
  /\ Commit(onopen([Cur EXCEPT !.readyState[s] = "OPEN"], s))
  /\ UNCHANGED <<now, sessionStart>>

\* the server starts the closing handshake of an open socket
ServerStartsClose(s) ==
  /\ readyState[s] = "OPEN"
  /\ readyState' = [readyState EXCEPT ![s] = "CLOSING"]
  /\ UNCHANGED <<sequence, lastEmitTime, queue, socket, reconnectTimer,
                 currentSessionId, currentUserId, isConnected, isManualDisconnect,
                 connectionState, sockIdent, failed, attempts, timers, wire, now,
                 history, sessionStart, evicted, calls, manuallyClosed, cleared, openLog>>
  /\ UNCHANGED <<mediaVars, violationVars, fifoVars>>

\* the connection of socket s is closed cleanly: readyState CLOSED, close event
SocketClose(s) ==
  /\ readyState[s] \in {"OPEN", "CLOSING"}
  /\ s \notin failed
  /\ Commit(onclose([Cur EXCEPT !.readyState[s] = "CLOSED"], s))
  /\ UNCHANGED <<now, sessionStart>>

\* the connection of socket s fails: readyState CLOSED, error event and close
\* event in the same task
SocketFail(s) ==
  /\ readyState[s] \in {"CONNECTING", "OPEN", "CLOSING"}
  /\ Commit(onclose(onerror([Cur EXCEPT !.readyState[s] = "CLOSED"], s), s))
  /\ UNCHANGED <<now, sessionStart>>

\* body of the setTimeout callback of scheduleReconnect
reconnectCallback(st, t) ==
  connectSocket([st EXCEPT !.timers = @ \ {t}, !.reconnectTimer = NoTimer],
                t.sid, t.uid)

\* what connectSocket sees when the callback of timer t calls it
InCallback(t) == [Cur EXCEPT !.timers = @ \ {t}, !.reconnectTimer = NoTimer]

\* a pending reconnect timer fires
ReconnectTimerFires(maxS) ==
  /\ \E t \in timers :
       /\ (Creates(InCallback(t)) /\ ~UrlRejected(t.sid, t.uid)) => CanCreate(Cur, maxS)
       /\ (Creates(InCallback(t)) /\ UrlRejected(t.sid, t.uid)) => attempts < MaxAttempts
       /\ Commit(reconnectCallback(Cur, t))
  /\ UNCHANGED <<now, sessionStart>>

\* time passes
Tick ==
  /\ now + TickMs <= MaxNow
  /\ now' = now + TickMs
  /\ UNCHANGED <<sequence, lastEmitTime, queue, socket, reconnectTimer,
                 currentSessionId, currentUserId, isConnected, isManualDisconnect,
                 connectionState, readyState, sockIdent, failed, attempts, timers, wire,
                 history, sessionStart, evicted, calls, manuallyClosed, cleared, openLog>>
  /\ UNCHANGED <<mediaVars, violationVars, fifoVars>>

\* ------------------------------------------------------------ media actions

\* a page calls initializeMediaStream(req); it runs to its first await
InitializeMediaStream ==
  /\ initPc = "idle"
  /\ \E req \in Requirements : MCommit(initializeMediaStream(MCur, req))
  /\ UNCHANGED polls

\* getUserMedia({video: true}) settles: resolved when the camera is
\* available, rejected otherwise; the call runs on to its next await or return
GetUserMediaVideo ==
  /\ initPc = "camera"
  /\ MCommit(videoSettled(MCur, "camera" \in available))
  /\ UNCHANGED polls

\* getUserMedia({audio: true}) settles; the call runs on to its return
GetUserMediaAudio ==
  /\ initPc = "microphone"
  /\ MCommit(audioSettled(MCur, "microphone" \in available))
  /\ UNCHANGED polls

\* a page initialises the stream with both devices required (the exam page's
\* MEDIA_PRESETS.BOTH) or with none required
InitializeForExam ==
  /\ initPc = "idle"
  /\ \E req \in {DEFAULT_REQUIREMENTS, [camera |-> FALSE, microphone |-> FALSE]} :
       MCommit(initializeMediaStream(MCur, req))
  /\ UNCHANGED polls

\* a page calls cleanupMediaStream
CleanupMediaStream ==
  /\ Len(globalStream) > 0
  /\ MCommit(cleanupMediaStream(MCur))
  /\ UNCHANGED polls

\* a page calls startMediaMonitor: the initial check is its first poll
StartMediaMonitor ==
  /\ ~interval
  /\ polls < MaxPolls
  /\ MCommit(startMediaMonitor(MCur))
  /\ polls' = polls + 1

\* a page calls the cleanup function of the monitor
StopMonitoring ==
  /\ interval
  /\ MCommit(stopMonitoring(MCur))
  /\ UNCHANGED polls

\* the interval of the monitor fires: one poll
Poll ==
  /\ interval
  /\ polls < MaxPolls
  /\ MCommit(intervalCallback(MCur))
  /\ polls' = polls + 1

\* a stream whose tracks of one kind have ended
Ended(stream, d) ==
  IF d = "camera"
  THEN [stream EXCEPT !.video = [i \in DOMAIN @ |-> [@[i] EXCEPT !.readyState = "ended"]]]
  ELSE [stream EXCEPT !.audio = [i \in DOMAIN @ |-> [@[i] EXCEPT !.readyState = "ended"]]]

\* a device is unplugged or its permission revoked, between two
\* initializeMediaStream calls: its tracks end, getUserMedia rejects from now on
DeviceLost(d) ==
  /\ initPc = "idle"
  /\ d \in available
  /\ available' = available \ {d}
  /\ globalStream' = [i \in DOMAIN globalStream |-> Ended(globalStream[i], d)]
  /\ UNCHANGED <<currentRequirements, lastCameraStatus, lastMicStatus, interval,
                 emitted, reported, initPc, requirements, errors,
                 combinedStream, returned, polls>>
  /\ UNCHANGED <<transportVars, violationVars, fifoVars>>

\* the device is back
DeviceRestored(d) ==
  /\ initPc = "idle"
  /\ d \notin available
  /\ available' = available \cup {d}
  /\ UNCHANGED <<globalStream, currentRequirements, lastCameraStatus,
                 lastMicStatus, interval, emitted, reported, initPc,
                 requirements, errors, combinedStream, returned, polls>>
  /\ UNCHANGED <<transportVars, violationVars, fifoVars>>

\* a stream whose tracks of one kind have enabled set to b
Enabled(stream, d, b) ==
  IF d = "camera"
  THEN [stream EXCEPT !.video = [i \in DOMAIN @ |-> [@[i] EXCEPT !.enabled = b]]]
  ELSE [stream EXCEPT !.audio = [i \in DOMAIN @ |-> [@[i] EXCEPT !.enabled = b]]]

\* track.enabled of the tracks of one kind is written (mute / unmute)
SetEnabled(d, b) ==
  /\ Len(globalStream) > 0
  /\ globalStream' = <<Enabled(globalStream[1], d, b)>>
  /\ globalStream' # globalStream
  /\ UNCHANGED <<currentRequirements, lastCameraStatus, lastMicStatus, interval,
                 emitted, reported, available, initPc, requirements, errors,
                 combinedStream, returned, polls>>
  /\ UNCHANGED <<transportVars, violationVars, fifoVars>>

\* -------------------------------------------------------- violation actions

\* a component calls addViolation of useViolationManager
AddViolation ==
  /\ Len(alerts) < MaxViolations
  /\ Len(updates) < MaxPending
  /\ VCommit(addViolation(VCur, "object_detected", now, "caller"))
  /\ UNCHANGED <<transportVars, mediaVars, fifoVars>>

\* addViolation called early enough for the clock of the model to reach the
\* end of the cooling period it starts
AddViolationInTime ==
  /\ ((MaxClock - now) \div ClockStepMs) * ClockStepMs >= COOLING_PERIOD_DURATION * 1000
  /\ AddViolation

\* the detection interval fires: checkForViolations with what detectFaces sees
CheckForViolations ==
  /\ loopReady
  /\ Len(alerts) < MaxViolations
  /\ Len(updates) < MaxPending
  /\ \E detected \in BOOLEAN, faceCount \in 0..2 :
       VCommit(checkForViolations(VCur, detected, faceCount, now))
  /\ UNCHANGED <<transportVars, mediaVars, fifoVars>>

\* the countdown interval fires
CountdownFires ==
  /\ Len(updates) < MaxPending
  /\ \E startTime \in intervals :
       /\ now > startTime
       /\ VCommit(countdownCallback(VCur, startTime, now))
  /\ UNCHANGED <<transportVars, mediaVars, fifoVars>>

\* the timeout that ends the cooling period fires
CoolingTimerFires ==
  /\ Len(updates) < MaxPending
  /\ \E due \in timeouts :
       /\ now >= due
       /\ VCommit(coolingTimerCallback(VCur, due))
  /\ UNCHANGED <<transportVars, mediaVars, fifoVars>>

\* loadFaceDetector finishes with a detector
DetectorLoads ==
  /\ loadPc = "loading"
  /\ VCommit(detectorLoaded(VCur))
  /\ UNCHANGED <<transportVars, mediaVars, fifoVars>>

\* loadFaceDetector fails (script, wasm or model not loaded)
DetectorFails ==
  /\ loadPc = "loading"
  /\ VCommit(detectorFailed(VCur))
  /\ UNCHANGED <<transportVars, mediaVars, fifoVars>>

\* React renders and commits
Render ==
  /\ updates # <<>> \/ pendingReady # <<>>
  /\ VCommit(render(VCur))
  /\ UNCHANGED <<transportVars, mediaVars, fifoVars>>

\* React runs the passive effects of the commit
Resubscribe ==
  /\ isInCoolingPeriod # coolingPeriod.active \/ loopReady # detectionReady
  /\ VCommit(resubscribe(VCur))
  /\ UNCHANGED <<transportVars, mediaVars, fifoVars>>

\* time passes in the violation specifications
ClockTick ==
  /\ now + ClockStepMs <= MaxClock
  /\ now' = now + ClockStepMs
  /\ UNCHANGED <<sequence, lastEmitTime, queue, socket, reconnectTimer,
                 currentSessionId, currentUserId, isConnected, isManualDisconnect,
                 connectionState, readyState, sockIdent, failed, attempts, timers, wire,
                 history, sessionStart, evicted, calls, manuallyClosed, cleared, openLog>>
  /\ UNCHANGED <<mediaVars, violationVars, fifoVars>>

\* a caller drains the queue: dequeueAll, its return value recorded
DequeueAll ==
  /\ Len(drained) < MaxDrains
  /\ queue' = dequeueAll(Cur).st.queue
  /\ drained' = Append(drained, dequeueAll(Cur).events)
  /\ UNCHANGED <<sequence, lastEmitTime, socket, reconnectTimer,
                 currentSessionId, currentUserId, isConnected, isManualDisconnect,
                 connectionState, readyState, sockIdent, failed, attempts, timers, wire,
                 now, history, sessionStart, evicted, calls, manuallyClosed,
                 cleared, openLog>>
  /\ UNCHANGED <<mediaVars, violationVars>>

\* the page starts the monitor with handleProctorEvent: the initial check
\* and the emits it makes
MonitorStarts ==
  /\ ~interval
  /\ polls < MaxMonitorPolls
  /\ LET m == startMediaMonitor(MCur)
     IN /\ CommitMedia(m)
        /\ CommitTransport(deliver(Cur, m.emitted, now))
  /\ polls' = polls + 1
  /\ UNCHANGED <<now, sessionStart, violationVars, fifoVars>>

\* the interval of the monitor fires, POLL_INTERVAL_MS after the previous
\* poll: one poll and the emits it makes
MonitorPolls ==
  /\ interval
  /\ polls < MaxMonitorPolls
  /\ now' = now + POLL_INTERVAL_MS
  /\ LET m == intervalCallback(MCur)
     IN /\ CommitMedia(m)
        /\ CommitTransport(deliver(Cur, m.emitted, now'))
  /\ polls' = polls + 1
  /\ UNCHANGED <<sessionStart, violationVars, fifoVars>>

\* a caller of the queue module calls clearQueue
ClearQueue ==
  /\ Commit(clearQueue(Cur))
  /\ UNCHANGED <<now, sessionStart>>

\* a component calls clearAlert with the id of an alert of the list
ClearAlert ==
  /\ \E i \in DOMAIN alerts : VCommit(clearAlert(VCur, i))
  /\ UNCHANGED <<transportVars, mediaVars, fifoVars>>

\* a component calls clearAllAlerts
ClearAllAlerts ==
  /\ alerts # <<>>
  /\ VCommit(clearAllAlerts(VCur))
  /\ UNCHANGED <<transportVars, mediaVars, fifoVars>>

\* ------------------------------------------------------------ specifications

\* The transport with the queue and the emitter feeding it: every transport
\* operation and socket event, two pages, within one instant of the clock.
Next ==
  \/ Emit(PageIdents, UnthrottledTypes, MaxEvents)
  \/ ConnectSocket(PageIdents, MaxSockets)
  \/ DisconnectSocket
  \/ \E s \in Sockets : SocketOpen(s)
  \/ \E s \in Sockets : ServerStartsClose(s)
  \/ \E s \in Sockets : SocketClose(s)
  \/ \E s \in Sockets : SocketFail(s)
  \/ ReconnectTimerFires(MaxSockets)

Spec == Init /\ [][Next]_vars

\* The emitter (sequencer, throttle) of one page over time, with the
\* transport connecting, opening, closing and disconnecting underneath.
NextEmitter ==
  \/ Emit(EmitterIdents, EventTypes, MaxEmitterEvents)
  \/ ResetSequence
  \/ Tick
  \/ ConnectSocket(EmitterIdents, MaxEmitterSockets)
  \/ DisconnectSocket
  \/ \E s \in Sockets : SocketOpen(s)
  \/ \E s \in Sockets : SocketClose(s)

SpecEmitter == Init /\ [][NextEmitter]_vars

\* The capacity run: unthrottled emits with the transport never connected.
NextQueue ==
  Emit(EmitterIdents, UnthrottledTypes, MaxEnq)

SpecQueue == Init /\ [][NextQueue]_vars

\* The queue module through all its exported operations that change it:
\* enqueues (emits with no connection), drains and clearQueue.
NextQueueApi ==
  \/ Emit(EmitterIdents, UnthrottledTypes, MaxFifoEvents)
  \/ DequeueAll
  \/ ClearQueue

SpecQueueApi == Init /\ [][NextQueueApi]_vars

\* The device monitor emitting through the emitter over time: streams
\* initialised for any requirements and released, the monitor started,
\* polling every POLL_INTERVAL_MS and stopped, with no connection.
NextMonitor ==
  \/ InitializeForExam
  \/ GetUserMediaVideo
  \/ GetUserMediaAudio
  \/ CleanupMediaStream
  \/ MonitorStarts
  \/ StopMonitoring
  \/ MonitorPolls

SpecMonitor == Init /\ [][NextMonitor]_vars

\* The transport under failing connections: pages connect with any identity,
\* one of which yields a URL the WebSocket constructor rejects; sockets open,
\* close and fail; the reconnect timer fires.
NextFailure ==
  \/ ConnectSocket(Idents, MaxSockets)
  \/ DisconnectSocket
  \/ \E s \in Sockets : SocketOpen(s)
  \/ \E s \in Sockets : SocketClose(s)
  \/ \E s \in Sockets : SocketFail(s)
  \/ ReconnectTimerFires(MaxSockets)

SpecFailure == Init /\ [][NextFailure]_vars

\* The queue under interleaved enqueues (emits with no connection) and drains.
NextFifo ==
  \/ Emit(EmitterIdents, UnthrottledTypes, MaxFifoEvents)
  \/ DequeueAll

SpecFifo == Init /\ [][NextFifo]_vars

\* The media modules: pages that acquire and release the stream and run the
\* device monitor, devices that come and go, tracks that are muted.
NextMedia ==
  \/ InitializeMediaStream
  \/ GetUserMediaVideo
  \/ GetUserMediaAudio
  \/ CleanupMediaStream
  \/ StartMediaMonitor
  \/ StopMonitoring
  \/ Poll
  \/ \E d \in Devices : DeviceLost(d)
  \/ \E d \in Devices : DeviceRestored(d)
  \/ \E d \in Devices, b \in BOOLEAN : SetEnabled(d, b)

SpecMedia == Init /\ [][NextMedia]_vars

\* The violation manager with a component that records violations, over time.
NextCooling ==
  \/ AddViolation
  \/ CountdownFires
  \/ CoolingTimerFires
  \/ Render
  \/ ClockTick

SpecCooling == Init /\ [][NextCooling]_vars

\* The violation manager with time passing, due timers firing and React
\* rendering and running its effects: the browser runs a due timer callback
\* and React processes pending updates and effects, each eventually.
NextCoolingLive ==
  \/ AddViolationInTime
  \/ CountdownFires
  \/ CoolingTimerFires
  \/ Render
  \/ Resubscribe
  \/ ClockTick

SpecCoolingLive ==
  /\ Init
  /\ [][NextCoolingLive]_vars
  /\ WF_vars(ClockTick)
  /\ WF_vars(CountdownFires)
  /\ WF_vars(CoolingTimerFires)
  /\ WF_vars(Render)
  /\ WF_vars(Resubscribe)

\* The detection loop of useAIProcessing driving the violation manager.
NextDetector ==
  \/ DetectorLoads
  \/ DetectorFails
  \/ CheckForViolations
  \/ CountdownFires
  \/ CoolingTimerFires
  \/ Render
  \/ Resubscribe
  \/ ClockTick

SpecDetector == Init /\ [][NextDetector]_vars

\* The violation manager through everything its hook returns that changes
\* it: addViolation, clearAlert and clearAllAlerts, with its timers and React.
NextAlerts ==
  \/ AddViolation
  \/ ClearAlert
  \/ ClearAllAlerts
  \/ CountdownFires
  \/ CoolingTimerFires
  \/ Render
  \/ ClockTick

SpecAlerts == Init /\ [][NextAlerts]_vars

\* The device monitor emitting through the emitter while devices are lost:
\* the stream initialised for the exam, the monitor started, polling and
\* stopped, a device unplugged.
NextDeviceMonitor ==
  \/ InitializeForExam
  \/ GetUserMediaVideo
  \/ GetUserMediaAudio
  \/ MonitorStarts
  \/ StopMonitoring
  \/ MonitorPolls
  \/ \E d \in Devices : DeviceLost(d)

SpecDeviceMonitor == Init /\ [][NextDeviceMonitor]_vars

\* ------------------------------------------------------------------ claims

Range(f) == {f[i] : i \in DOMAIN f}

Min(a, b) == IF a <= b THEN a ELSE b

\* the events handed to WebSocket.send of an open socket so far
Transmitted == UNION {Range(wire[i].events) : i \in DOMAIN wire}

\* the WebSocket objects constructed so far
Constructed == {s \in Sockets : readyState[s] # "NONE"}

\* C1: within one session (since the last resetSequence) the accepted events
\* carry the sequence numbers 1, 2, ..., N in emission order, and the counter
\* stands at N, whatever the transport did in between.
C1_SequenceNumbersExact ==
  /\ \A i \in 1..Len(SessionEvents) : SessionEvents[i].sequence = i
  /\ sequence = Len(SessionEvents)

\* a session started after an earlier one has two accepted events, emitted
\* under different connection states (one went out on the socket)
C1_Witness ==
  /\ sessionStart = 1
  /\ Len(SessionEvents) = 2
  /\ Len(wire) >= 1
  /\ Constructed # {}

\* C2: an open that finds the transport not connected and K >= 1 events
\* queued sends exactly one BATCH_EVENTS message holding the K events in
\* order, on the socket that opened, and leaves the queue empty.
C2_OpenFlushesQueue ==
  [][\A s \in Sockets :
       (/\ readyState[s] = "CONNECTING"
        /\ readyState'[s] = "OPEN"
        /\ ~isConnected
        /\ Len(queue) >= 1)
       => (/\ wire' = Append(wire, [sock |-> s, kind |-> "BATCH_EVENTS", events |-> queue])
           /\ queue' = <<>>)]_vars

\* C3 (as a statement a finite run refutes): an accepted event that is no
\* longer queued and was not evicted has been transmitted; an event for which
\* this fails can never be transmitted afterwards.
C3_NoEventLost ==
  \A i \in DOMAIN history :
    (history[i] \notin Range(queue) /\ history[i].event_id \notin evicted)
      => history[i] \in Transmitted

\* C4: after n enqueues with no drain the queue holds the last
\* min(n, MAX_QUEUE_SIZE) events in enqueue order (events 101..600 after 600).
C4_QueueKeepsNewest ==
  LET n == Len(history)
      k == Min(n, MAX_QUEUE_SIZE)
  IN queue = SubSeq(history, n - k + 1, n)

\* 600 events enqueued: 500 kept, the first of them event 101
C4_Witness ==
  /\ Len(history) = MAX_QUEUE_SIZE + 100
  /\ Len(queue) = MAX_QUEUE_SIZE
  /\ Head(queue).event_id = 101
  /\ queue[MAX_QUEUE_SIZE].event_id = MAX_QUEUE_SIZE + 100

\* the time of the last accepted emission of a type, 0 when there is none
LastAcceptedAt(type) ==
  LET I == {i \in DOMAIN history : history[i].type = type}
  IN IF I = {} THEN 0
     ELSE history[CHOOSE i \in I : \A j \in I : j <= i].timestamp

\* C5: a call for a type with a configured interval, made less than the
\* interval after the last accepted emission of that type, changes neither
\* the sequence counter nor the queue nor the wire, and creates no event.
C5_SuppressedCallHasNoEffect ==
  [][Len(calls') = Len(calls) + 1 =>
       LET c == calls'[Len(calls')]
       IN (/\ c.type \in DOMAIN THROTTLE_INTERVALS
           /\ LastAcceptedAt(c.type) # 0
           /\ c.at - LastAcceptedAt(c.type) < THROTTLE_INTERVALS[c.type])
          => (/\ ~c.accepted
              /\ sequence' = sequence
              /\ queue' = queue
              /\ wire' = wire
              /\ history' = history)]_vars

\* accepted, suppressed, accepted again after the interval: the event after
\* the suppressed call carries the next consecutive number
C5_Witness ==
  /\ Len(calls) = 3
  /\ calls[1].accepted /\ ~calls[2].accepted /\ calls[3].accepted
  /\ calls[3].type = calls[2].type
  /\ sessionStart = 0
  /\ Len(history) = 2
  /\ history[2].sequence = 2

\* C6: an accepted event is in the queue when its emit returns, also when it
\* was sent at once; events leave the queue only in the drain of an open
\* handler or by eviction at capacity.
C6_QueuedFirstRemovedOnlyByDrain ==
  [][/\ Len(history') > Len(history) =>
          history'[Len(history')] \in Range(queue')
     /\ \A e \in Range(queue) \ Range(queue') :
          \/ e.event_id \in evicted'
          \/ /\ queue' = <<>>
             /\ \E s \in Sockets : readyState[s] = "CONNECTING" /\ readyState'[s] = "OPEN"]_vars

\* an event went out in an EVENT message and is still queued
C6_Witness ==
  \E i \in DOMAIN wire :
    /\ wire[i].kind = "EVENT"
    /\ wire[i].events[1] \in Range(queue)

\* C7: from disconnectSocket until the next connectSocket of the caller no
\* reconnect timer is pending (the pending one is cancelled, a close that
\* arrives later schedules none) and no socket is constructed.
C7_DisconnectStopsReconnecting ==
  /\ [](isManualDisconnect => (timers = {} /\ reconnectTimer = NoTimer))
  /\ [][(isManualDisconnect /\ isManualDisconnect') => Constructed' = Constructed]_vars

\* disconnectSocket cancelled a pending timer and the close notification of
\* the socket it closed has arrived
C7_Witness ==
  /\ isManualDisconnect
  /\ cleared
  /\ \E s \in manuallyClosed : readyState[s] = "CLOSED"

\* C8: at most one reconnect timer is pending.
C8_AtMostOneReconnectTimer == Cardinality(timers) <= 1

\* a close arrived while the reconnect was already scheduled: the observer
\* was told "disconnected" and scheduleReconnect returned at its guard
C8_Witness ==
  /\ Cardinality(timers) = 1
  /\ connectionState = "disconnected"

\* C9: the close callback of a socket that no disconnectSocket closed, run
\* while the manual-disconnect flag is clear, ends with the observer told
\* "reconnecting" and exactly one reconnect pending, for the identity the
\* socket was opened with.
C9_CloseEndsReconnecting ==
  [][\A s \in Sockets :
       (/\ readyState[s] # "CLOSED"
        /\ readyState'[s] = "CLOSED"
        /\ s \notin manuallyClosed
        /\ ~isManualDisconnect)
       => (/\ connectionState' = "reconnecting"
           /\ Cardinality(timers') = 1
           /\ \A t \in timers' : <<t.sid, t.uid>> = sockIdent[s])]_vars

\* C10: while a connection is connecting or connected, connectSocket changes
\* nothing: no socket constructed, identity, flag and timer as before.
C10_ConnectIsNoOpWhenConnected ==
  (\E s \in Sockets : readyState[s] \in {"CONNECTING", "OPEN"})
    => \A id \in Idents : connectSocket(Cur, id[1], id[2]) = Cur

\* the status a poll computes for device d from the tracks of the stream
ComputedStatus(d) ==
  StatusOf(IF d = "camera" THEN cameraOn(globalStream[1]) ELSE micOn(globalStream[1]))

\* the event type the monitor reports device d with
StatusEvent(d) == IF d = "camera" THEN "camera_status" ELSE "mic_status"

\* the emitEvent calls the poll of this step made for device d
EmittedFor(d) == {i \in DOMAIN emitted' : emitted'[i].type = StatusEvent(d)}

\* what the polling monitor has observed of device d before this poll: nothing
\* when the poll is the initial check of a new monitor
ObservedBefore(d) == IF interval THEN reported[d] ELSE <<>>

\* C11: a poll over a stream emits, for each required device, a status event
\* if and only if the status computed from the tracks differs from what the
\* monitor last observed (nothing before its first poll); the event carries
\* the computed status and there is one of it.
C11_MonitorIsEdgeTriggered ==
  [][(polls' = polls + 1 /\ Len(globalStream) > 0) =>
       \A d \in Devices :
         currentRequirements[d] =>
           /\ (EmittedFor(d) # {}) <=> (<<ComputedStatus(d)>> # ObservedBefore(d))
           /\ Cardinality(EmittedFor(d)) <= 1
           /\ \A i \in EmittedFor(d) : emitted'[i].status = ComputedStatus(d)]_vars

\* camera required only, one live enabled video track: the initial check
\* reported "on", the next poll reported nothing, no microphone report
C11_Witness ==
  /\ interval
  /\ polls = 2
  /\ currentRequirements = [camera |-> TRUE, microphone |-> FALSE]
  /\ Len(globalStream) > 0
  /\ cameraOn(globalStream[1])
  /\ reported = [camera |-> <<"on">>, microphone |-> <<>>]
  /\ emitted = <<>>

\* C12: no poll emits a status event for a device the current requirements
\* do not declare required, whatever the tracks of the stream do.
C12_OnlyRequiredDevicesReported ==
  [][polls' = polls + 1 =>
       \A d \in Devices : ~currentRequirements[d] => EmittedFor(d) = {}]_vars

\* camera required only, the stream has an audio track that went off while
\* the monitor polled: the camera was reported, the microphone never
C12_Witness ==
  /\ interval
  /\ polls >= 2
  /\ currentRequirements = [camera |-> TRUE, microphone |-> FALSE]
  /\ Len(globalStream) > 0
  /\ Len(globalStream[1].audio) > 0
  /\ ~micOn(globalStream[1])
  /\ reported.camera # <<>>
  /\ reported.microphone = <<>>

\* C20: a call of initializeMediaStream that returns while a device its
\* argument requires is unavailable returns stream = null and an error entry
\* for that device.
C20_RequiredDeviceFailureIsReported ==
  \A i \in DOMAIN returned :
    \A d \in Devices :
      (returned[i].requirements[d] /\ d \notin returned[i].available)
        => (returned[i].stream = "null" /\ returned[i].errors[d] # <<>>)

\* C13: an addViolation leaves the cooling status set to active with
\* COOLING_PERIOD_DURATION seconds remaining, counted from the moment of the
\* call, whether or not a cooling period was active before.
C13_ViolationResetsCooling ==
  [][Len(alerts') = Len(alerts) + 1 =>
       applyUpdates(coolingPeriod', updates')
         = [active |-> TRUE, remainingSeconds |-> COOLING_PERIOD_DURATION,
            startTime |-> now]]_vars

\* a second violation ten seconds after the first, rendered: 60 seconds
\* remain, counted from the second
C13_Witness ==
  /\ Len(alerts) = 2
  /\ alerts[2].timestamp - alerts[1].timestamp = ClockStepMs
  /\ now = alerts[2].timestamp
  /\ updates = <<>>
  /\ coolingPeriod = [active |-> TRUE, remainingSeconds |-> COOLING_PERIOD_DURATION,
                      startTime |-> alerts[2].timestamp]

\* C14: the detection loop never calls addViolation while the cooling period
\* is active.
C14_NoViolationWhileCooling ==
  [][(Len(alerts') = Len(alerts) + 1 /\ alerts'[Len(alerts')].by = "checkForViolations")
       => ~coolingPeriod.active]_vars

\* C15: no event is returned by two dequeueAll calls (nor twice by one), and
\* every dequeueAll returns its events in the order they were enqueued.
C15_DrainsDisjointAndFifo ==
  /\ \A i, j \in DOMAIN drained :
       i < j => Range(drained[i]) \cap Range(drained[j]) = {}
  /\ \A i \in DOMAIN drained :
       \A a, b \in DOMAIN drained[i] :
         a < b => drained[i][a].event_id < drained[i][b].event_id

\* two drains that each returned events, one of them several, and events
\* enqueued since
C15_Witness ==
  /\ Len(drained) >= 2
  /\ Len(drained[1]) >= 2
  /\ Len(drained[2]) >= 1
  /\ Len(queue) >= 1

\* C16: a sendEvent call made while the socket is not open transmits nothing
\* and leaves the event queued; the next flush of the queue (the drain of an
\* onopen) transmits every queued event that was not transmitted before.
SocketIsOpen == IF socket = NoSocket THEN FALSE ELSE readyState[socket] = "OPEN"

C16_UnsentEventGoesOutWithNextFlush ==
  [][/\ (/\ Len(history') = Len(history) + 1
         /\ ~SocketIsOpen)
        => (/\ wire' = wire
            /\ history'[Len(history')] \in Range(queue'))
     /\ (queue # <<>> /\ queue' = <<>>)
        => \A i \in DOMAIN queue :
             queue[i] \notin Transmitted => queue[i] \in Transmitted']_vars

\* C17: a connection failure leaves the transport reconnecting: when a
\* connecting socket fails while the manual-disconnect flag is clear, or
\* connectSocket takes a new identity whose URL the WebSocket constructor
\* rejects, the observer is told "reconnecting" and a reconnect is pending.
C17_ConnectFailureEndsReconnecting ==
  [][/\ \A s \in Sockets :
          (/\ readyState[s] = "CONNECTING"
           /\ readyState'[s] = "CLOSED"
           /\ ~isManualDisconnect)
          => (connectionState' = "reconnecting" /\ timers' # {})
     /\ (/\ <<currentSessionId', currentUserId'>> # <<currentSessionId, currentUserId>>
         /\ currentSessionId' # Null
         /\ UrlRejected(currentSessionId', currentUserId'))
        => (connectionState' = "reconnecting" /\ timers' # {})]_vars

\* C19: no event is transmitted twice: over all EVENT and BATCH_EVENTS
\* messages sent on any socket, every event_id occurs at most once.
C19_NoDuplicateSends ==
  \A i, j \in DOMAIN wire :
    \A a \in DOMAIN wire[i].events, b \in DOMAIN wire[j].events :
      wire[i].events[a].event_id = wire[j].events[b].event_id
        => (i = j /\ a = b)

\* C18: the reconnect delay grows with consecutive failures: a reconnect
\* scheduled as the second or a later one in a row (no open in between) waits
\* longer than the first one does.  (The weakest consequence of exponential
\* growth; the delay of the first reconnect is RECONNECT_DELAY_MS.)
C18_DelayGrowsWithFailures ==
  \A t \in timers : attempts >= 2 => t.delay > RECONNECT_DELAY_MS

\* C21: a device that is not required is never requested, the errors of a
\* returned result have no entry for it, and a result without a stream names
\* a required device in its errors.
C21_OptionalDeviceNeverAnError ==
  /\ \A d \in Devices : initPc = d => requirements[d]
  /\ \A i \in DOMAIN returned :
       /\ \A d \in Devices :
            ~returned[i].requirements[d] => returned[i].errors[d] = <<>>
       /\ returned[i].stream = "null"
            => \E d \in Devices :
                 returned[i].requirements[d] /\ returned[i].errors[d] # <<>>

\* C22: stopping the monitor clears its interval and nothing else: the step
\* that stops it leaves the global stream (and so its tracks) as it was and
\* emits nothing, and while the monitor stays stopped nothing is emitted or
\* reported.
C22_StopCancelsOnlyThePoll ==
  [][/\ (interval /\ ~interval')
        => (globalStream' = globalStream /\ emitted' = emitted
            /\ reported' = reported)
     /\ (~interval /\ ~interval')
        => (emitted' = emitted /\ reported' = reported)]_vars

\* the monitor has polled a live camera and reported it, and is stopped with
\* the stream still live
C22_Witness ==
  /\ ~interval
  /\ polls >= 1
  /\ reported.camera = <<"on">>
  /\ Len(globalStream) > 0
  /\ IF Len(globalStream) > 0 THEN someLive(globalStream[1].video) ELSE FALSE

\* C23: throttle state is scoped to the session: an emitProctorEvent call of
\* a type of which the current session (the events since the last
\* resetSequence) has no accepted event yet is accepted.
C23_ThrottleScopedToSession ==
  [][(Len(calls') = Len(calls) + 1
      /\ \A i \in DOMAIN SessionEvents :
           SessionEvents[i].type # calls'[Len(calls')].type)
     => calls'[Len(calls')].accepted]_vars

\* C24: the queue never holds more than MAX_QUEUE_SIZE events, and every
\* enqueue succeeds: the new event becomes the last entry; a queue below
\* capacity keeps all its entries, a full queue loses exactly its oldest one.
C24_EnqueueBoundedAndTotal ==
  /\ [](Len(queue) <= MAX_QUEUE_SIZE)
  /\ [][Len(history') = Len(history) + 1
        => LET e == history'[Len(history')]
           IN IF Len(queue) >= MAX_QUEUE_SIZE
                THEN /\ queue' = Append(Tail(queue), e)
                     /\ evicted' = evicted \cup {Head(queue).event_id}
                ELSE /\ queue' = Append(queue, e)
                     /\ evicted' = evicted]_vars

\* a full queue that has lost two events to eviction
C24_Witness ==
  /\ Len(queue) = MAX_QUEUE_SIZE
  /\ Cardinality(evicted) = 2
  /\ queue[MAX_QUEUE_SIZE] = history[Len(history)]

\* C25: every event that has left the queue was evicted by an enqueue at
\* capacity or was returned by a dequeueAll call.
C25_EventsLeaveByDrainOrEviction ==
  \A i \in DOMAIN history :
    history[i] \notin Range(queue)
      => \/ history[i].event_id \in evicted
         \/ \E j \in DOMAIN drained : history[i] \in Range(drained[j])

\* C26: the throttle window of a type runs from its last accepted emission:
\* a call of a type with no configured interval is accepted; a call of a
\* configured type with no accepted emission before, or made at least the
\* interval after the last accepted one, is accepted; a suppressed call
\* leaves the last-emit times as they were.
C26_WindowFromLastAccepted ==
  [][Len(calls') = Len(calls) + 1 =>
       LET c == calls'[Len(calls')]
       IN /\ c.type \notin DOMAIN THROTTLE_INTERVALS => c.accepted
          /\ (/\ c.type \in DOMAIN THROTTLE_INTERVALS
              /\ \/ LastAcceptedAt(c.type) = 0
                 \/ c.at - LastAcceptedAt(c.type) >= THROTTLE_INTERVALS[c.type])
             => c.accepted
          /\ ~c.accepted => lastEmitTime' = lastEmitTime]_vars

\* a throttled type accepted, suppressed within the interval, and accepted
\* again exactly one interval after the first call
C26_Witness ==
  /\ Len(calls) = 3
  /\ calls[1].type = "camera_status" /\ calls[1].accepted
  /\ calls[2].type = "camera_status" /\ ~calls[2].accepted
  /\ calls[2].at > calls[1].at
  /\ calls[3].type = "camera_status" /\ calls[3].accepted
  /\ calls[3].at - calls[1].at = CAMERA_STATUS_MS
  /\ calls[3].at - calls[2].at < CAMERA_STATUS_MS

\* C27: a poll that finds no stream emits exactly one stream_lost and no
\* device status when a device is required, and nothing when none is; the
\* stream_lost events accepted by the emitter (enqueued) lie at least
\* STREAM_LOST_MS apart.
C27_StreamLostOncePerWindow ==
  /\ [](\A i, j \in DOMAIN history :
          (i < j /\ history[i].type = "stream_lost" /\ history[j].type = "stream_lost")
            => history[j].timestamp - history[i].timestamp >= STREAM_LOST_MS)
  /\ [][(polls' = polls + 1 /\ Len(globalStream) = 0)
        => emitted' = IF currentRequirements.camera \/ currentRequirements.microphone
                        THEN <<[type |-> "stream_lost", status |-> "none"]>>
                        ELSE <<>>]_vars

\* five polls without a stream, four of them within the window of the first
\* stream_lost: two stream_lost events enqueued, three calls suppressed
C27_Witness ==
  /\ polls = 5
  /\ Len(globalStream) = 0
  /\ Len(calls) = 5
  /\ Len(history) = 2
  /\ \A i \in DOMAIN history : history[i].type = "stream_lost"
  /\ queue = history

\* C28: at most one countdown interval and one cooling timeout are pending
\* at any time, and a cooling timeout only fires COOLING_PERIOD_DURATION
\* seconds or more after the most recent violation (the timeout of a window
\* that a later violation restarted never fires).
C28_OneWindowFromLastViolation ==
  /\ [](Cardinality(timeouts) <= 1 /\ Cardinality(intervals) <= 1)
  /\ [][(alerts' = alerts /\ \E due \in timeouts : due \notin timeouts')
        => now >= alerts[Len(alerts)].timestamp + COOLING_PERIOD_DURATION * 1000]_vars

\* two violations ten seconds apart; the window has ended, 60 seconds after
\* the second and past the expiry of the first window
C28_Witness ==
  /\ Len(alerts) = 2
  /\ alerts[2].timestamp > alerts[1].timestamp
  /\ now >= alerts[2].timestamp + COOLING_PERIOD_DURATION * 1000
  /\ timeouts = {}
  /\ updates = <<>>
  /\ coolingPeriod = NotCooling

\* C29: every cooling period ends: whenever a cooling timeout is pending,
\* eventually no timeout is pending, the rendered status is idle (active
\* false, 0 seconds remaining, no start time) and the detection loop sees
\* isInCoolingPeriod false again.
C29_CoolingPeriodEnds ==
  (timeouts # {}) ~> (/\ timeouts = {}
                      /\ updates = <<>>
                      /\ coolingPeriod = NotCooling
                      /\ ~isInCoolingPeriod)

\* one violation; its period was seen by the loop and has ended
C29_Witness ==
  /\ Len(alerts) = 1
  /\ now >= alerts[1].timestamp + COOLING_PERIOD_DURATION * 1000
  /\ timeouts = {}
  /\ intervals = {}
  /\ updates = <<>>
  /\ coolingPeriod = NotCooling
  /\ ~isInCoolingPeriod

C31_AlertsAppendOnly ==
  [][\/ alerts' = alerts
     \/ /\ Len(alerts') = Len(alerts) + 1
        /\ SubSeq(alerts', 1, Len(alerts)) = alerts]_vars

\* C32: an open with an empty queue sends nothing, and in every open the
\* observer is told "connected" first: the drain and the send of the batch
\* come after it, in this order.
C32_NotifiedBeforeFlush ==
  /\ [](openLog \in {<<>>, <<"connected">>, <<"connected", "dequeueAll">>,
                     <<"connected", "dequeueAll", "send">>})
  /\ [][\A s \in Sockets :
          (readyState[s] = "CONNECTING" /\ readyState'[s] = "OPEN")
          => /\ openLog'[1] = "connected"
             /\ connectionState' = "connected"
             /\ queue = <<>> => (wire' = wire /\ openLog' = <<"connected">>)
             /\ queue # <<>> => (Len(openLog') >= 2 /\ openLog'[2] = "dequeueAll")]_vars

\* a socket has opened with events queued: notified, drained, batch sent
C32_Witness ==
  /\ openLog = <<"connected", "dequeueAll", "send">>
  /\ connectionState = "connected"
  /\ queue = <<>>
  /\ \E i \in DOMAIN wire : wire[i].kind = "BATCH_EVENTS"

\* C33: every event the drain on open removes from the queue is transmitted:
\* an open that empties the queue puts the drained events on the wire in one
\* BATCH_EVENTS message.
C33_DrainedEventsAreSent ==
  [][\A s \in Sockets :
       (/\ readyState[s] = "CONNECTING"
        /\ readyState'[s] = "OPEN"
        /\ queue # <<>>
        /\ queue' = <<>>)
       => /\ Len(wire') = Len(wire) + 1
          /\ wire'[Len(wire')].kind = "BATCH_EVENTS"
          /\ wire'[Len(wire')].events = queue]_vars

\* C34: at most one socket is connecting or open, and it is the one the
\* module references.
C34_OneLiveSocketReferenced ==
  \A s \in Sockets :
    readyState[s] \in {"CONNECTING", "OPEN"} => socket = s

\* C35: the state last reported to the observer matches the transport: it is
\* "connected" while the current socket is open and "reconnecting" while a
\* reconnect timer is pending.
C35_ReportedStateMatches ==
  /\ (socket # NoSocket /\ readyState[socket] = "OPEN")
       => connectionState = "connected"
  /\ timers # {} => connectionState = "reconnecting"

\* C36: the events in the queue appear in strictly increasing
\* sequence-number order from head to tail.
C36_QueueInSequenceOrder ==
  \A i, j \in DOMAIN queue :
    i < j => queue[i].sequence < queue[j].sequence

\* C37: every event transmitted over a connection carries the session_id and
\* the user_id the sending socket was opened with.
C37_SentEventsBelongToSession ==
  \A i \in DOMAIN wire :
    \A e \in Range(wire[i].events) :
      <<e.session_id, e.user_id>> = sockIdent[wire[i].sock]

\* the scenario of C37 in which the event was first sent in its own session:
\* an event sent on the socket of its session and sent again, in a batch, on
\* a socket opened for another session
C37_ResentInOtherSession ==
  \E i, j \in DOMAIN wire :
    /\ i < j
    /\ wire[i].kind = "EVENT"
    /\ wire[j].kind = "BATCH_EVENTS"
    /\ wire[i].events[1] \in Range(wire[j].events)
    /\ <<wire[i].events[1].session_id, wire[i].events[1].user_id>> = sockIdent[wire[i].sock]
    /\ sockIdent[wire[j].sock] # sockIdent[wire[i].sock]

\* the payload of the most recently enqueued event of a type (<<>>: none yet)
LastEnqueued(type) ==
  LET I == {i \in DOMAIN history : history[i].type = type}
  IN IF I = {} THEN <<>>
     ELSE <<history[CHOOSE i \in I : \A j \in I : j <= i].payload>>

\* C38: no status transition recorded by the monitor is lost to the throttle:
\* the status in the most recently enqueued camera_status (mic_status) event
\* equals the monitor's last observed camera (microphone) status.
C38_LastEventCarriesObservedStatus ==
  /\ lastCameraStatus # <<>>
       => LastEnqueued("camera_status") = <<StatusOf(lastCameraStatus[1])>>
  /\ lastMicStatus # <<>>
       => LastEnqueued("mic_status") = <<StatusOf(lastMicStatus[1])>>

\* the cooling status with every setCoolingPeriod call made so far applied
CurrentCooling == applyUpdates(coolingPeriod, updates)

\* a well-formed cooling status
WellFormedCooling(c) ==
  /\ ~c.active => (c.remainingSeconds = 0 /\ c.startTime = NoStartTime)
  /\ c.active => /\ c.startTime # NoStartTime
                 /\ c.remainingSeconds \in 0..COOLING_PERIOD_DURATION

\* C39: the cooling status is always well-formed, as rendered and as set, and
\* its remainingSeconds increases only when a violation is recorded.
C39_CoolingStatusWellFormed ==
  /\ [](WellFormedCooling(coolingPeriod) /\ WellFormedCooling(CurrentCooling))
  /\ [][CurrentCooling'.remainingSeconds > CurrentCooling.remainingSeconds
          => Len(alerts') = Len(alerts) + 1]_vars
  /\ [][coolingPeriod'.remainingSeconds > coolingPeriod.remainingSeconds
          => \E i \in DOMAIN updates :
               updates[i].kind = "value" /\ updates[i].value.active]_vars

\* a second violation recorded after the countdown of the first had gone
\* down, and the countdown of the second gone down and rendered
C39_Witness ==
  /\ Len(alerts) = 2
  /\ alerts[2].timestamp > alerts[1].timestamp
  /\ updates = <<>>
  /\ coolingPeriod.active
  /\ coolingPeriod.startTime = alerts[2].timestamp
  /\ coolingPeriod.remainingSeconds \in 1..(COOLING_PERIOD_DURATION - 1)

\* the tracks of a stream that capture device d
TracksOf(stream, d) == IF d = "camera" THEN stream.video ELSE stream.audio

\* C40: initializeMediaStream returns a stream only if every device required
\* by the requirements of the call has a live track in the stream returned.
C40_ReturnedStreamMeetsRequirements ==
  [][(/\ (initPc # "idle" /\ initPc' = "idle") \/ returned' # returned
      /\ returned' # <<>>
      /\ returned'[1].stream = "globalStream")
     => \A d \in Devices :
          returned'[1].requirements[d]
            => (Len(globalStream') > 0 /\ someLive(TracksOf(globalStream'[1], d)))]_vars

TypeOK ==
  /\ sequence \in Nat
  /\ socket \in Sockets \cup {NoSocket}
  /\ readyState \in [Sockets -> ReadyStates]
  /\ isConnected \in BOOLEAN
  /\ isManualDisconnect \in BOOLEAN
  /\ connectionState \in {"connected", "disconnected", "reconnecting"}
  /\ Len(queue) <= MAX_QUEUE_SIZE
====
